---- MODULE Spec2Model ----
(***************************************************************************)
(* Model of the image scraping pipeline of scraper.py: URL extraction from *)
(* markup, the selenium -> requests strategy selector, the per-URL         *)
(* download step and the scrape_and_save orchestrator.                     *)
(*                                                                         *)
(* Text is modelled as sequences of tokens.  A URL is a sequence of tokens *)
(* (host, path pieces, extension); markup is a sequence of items, each one *)
(* an inline-JSON "ou" field carrying a URL, a bare URL (for instance an   *)
(* img src attribute) or other text.                                       *)
(***************************************************************************)
EXTENDS Naturals, Sequences, FiniteSets

\* ---------------------------------------------------------------- bounds

\* Longest markup (in items) a results page holds.
MaxMarkupLen == 3

\* Largest max_images a run is started with (0..MaxLimit).
MaxLimit == 2

\* ------------------------------------------------------- configuration

\* config.SELENIUM_SCROLLS (default).
SELENIUM_SCROLLS == 3

\* Values of the SCRAPE_BACKEND environment variable a run is started with.
BackendValues == {"requests", "selenium", "Selenium"}

\* str.lower() on the backend values.
Lower(s) == IF s = "Selenium" THEN "selenium" ELSE s

\* _SKIP_DOMAINS
_SKIP_DOMAINS == {"google.", "gstatic.", "googleapis.", "googleusercontent."}

\* Image extensions of _FALLBACK_PATTERN.
ImageExts == {".jpg", ".jpeg", ".png", ".webp", ".gif"}

\* ---------------------------------------------------------------- inputs

\* The URLs that occur in markup.
Urls ==
  { <<"a.com", ".jpg">>,
    <<"b.org", ".png">>,
    <<"a.com", ".jpg", "?w">>,
    <<"c.net", "?id">>,
    <<"gstatic.", ".jpg">> }

\* The items markup is made of.  A bare URL with no image extension in it
\* is matched by neither pattern, as other text is.
Items ==
  [kind : {"ou"}, url : Urls]
    \cup [kind : {"src"}, url : {u \in Urls : \E i \in 2..Len(u) : u[i] \in ImageExts}]
    \cup {[kind |-> "text", url |-> << >>]}

RECURSIVE SeqsUpTo(_, _)
SeqsUpTo(S, n) ==
  IF n = 0 THEN { << >> }
  ELSE LET shorter == SeqsUpTo(S, n - 1)
       IN  shorter \cup { Append(s, x) : s \in {t \in shorter : Len(t) = n - 1}, x \in S }

Markups == SeqsUpTo(Items, MaxMarkupLen)

\* Queries: sequences of characters, non-empty after trimming.
Queries ==
  { <<"c", "a", "t">>,
    <<"_", "r", " ", "!", "p", "?">> }

\* ------------------------------------------------------- pattern extractor

\* d in url, for a token d.
Contains(url, d) == \E i \in 1..Len(url) : url[i] = d

\* _is_external_image
_is_external_image(url) == ~ \E d \in _SKIP_DOMAINS : Contains(url, d)

\* _OU_PATTERN.findall(html): the URL of every "ou" field, in order.
RECURSIVE OuFindall(_)
OuFindall(html) ==
  IF html = << >> THEN << >>
  ELSE LET rest == OuFindall(Tail(html))
       IN  IF Head(html).kind = "ou" THEN <<Head(html).url>> \o rest ELSE rest

\* The longest prefix of url that ends in an image extension (<< >> if none):
\* what the greedy _FALLBACK_PATTERN matches inside one URL.
RECURSIVE ExtPrefix(_)
ExtPrefix(url) ==
  IF url = << >> THEN << >>
  ELSE IF Len(url) >= 2 /\ url[Len(url)] \in ImageExts THEN url
  ELSE ExtPrefix(SubSeq(url, 1, Len(url) - 1))

\* _FALLBACK_PATTERN.findall(html)
RECURSIVE FallbackFindall(_)
FallbackFindall(html) ==
  IF html = << >> THEN << >>
  ELSE LET rest == FallbackFindall(Tail(html))
           m    == ExtPrefix(Head(html).url)
       IN  IF m # << >> THEN <<m>> \o rest ELSE rest

\* The fallback pattern tried when no primary match survives the filter.
MatchesFallbackWhenNoneKept(html) ==
  IF \E i \in 1..Len(OuFindall(html)) : _is_external_image(OuFindall(html)[i])
  THEN OuFindall(html)
  ELSE FallbackFindall(html)

\* Lines 77-80: the matches the loop runs over.
Matches(html) ==
  IF OuFindall(html) # << >> THEN OuFindall(html) ELSE FallbackFindall(html)

\* The loop test without the `url not in seen` conjunct.
KeepDuplicates(url, seen) == _is_external_image(url)

\* The loop test of line 85.
Keep(url, seen) == url \notin seen /\ _is_external_image(url)

\* Lines 82-87: the seen/unique loop.
RECURSIVE Unique(_, _)
Unique(urls, seen) ==
  IF urls = << >> THEN << >>
  ELSE IF Keep(Head(urls), seen)
       THEN <<Head(urls)>> \o Unique(Tail(urls), seen \cup {Head(urls)})
       ELSE Unique(Tail(urls), seen)

\* unique[:max_images] for max_images >= 0.
Truncate(s, n) == SubSeq(s, 1, IF n < Len(s) THEN n ELSE Len(s))

\* _extract_urls
_extract_urls(html, max_images) == Truncate(Unique(Matches(html), {}), max_images)

\* ------------------------------------------------------- slug and filenames

\* Characters matched by \w.
WordChars == {"a", "c", "p", "r", "t", "_", "0", "1"}

\* re.sub(r"\W+", "_", query): every run of non-word characters becomes "_".
RECURSIVE SubNonWord(_, _)
SubNonWord(q, inRun) ==
  IF q = << >> THEN << >>
  ELSE IF Head(q) \in WordChars THEN <<Head(q)>> \o SubNonWord(Tail(q), FALSE)
  ELSE IF inRun THEN SubNonWord(Tail(q), TRUE)
  ELSE <<"_">> \o SubNonWord(Tail(q), TRUE)

\* str.strip("_")
RECURSIVE Strip(_)
Strip(s) ==
  IF s = << >> THEN << >>
  ELSE IF Head(s) = "_" THEN Strip(Tail(s))
  ELSE IF s[Len(s)] = "_" THEN Strip(SubSeq(s, 1, Len(s) - 1))
  ELSE s

\* Line 259: safe_query
SafeQuery(query) == Strip(SubNonWord(query, FALSE))

Digit(d) == <<"0", "1", "2", "3", "4", "5", "6", "7", "8", "9">>[d + 1]

\* str(n) for n >= 0, in decimal.
RECURSIVE Str(_)
Str(n) == IF n < 10 THEN <<Digit(n)>> ELSE Str(n \div 10) \o <<Digit(n % 10)>>

\* The filename without the candidate position.
FilenameNoIndex(safe_query, index) == safe_query \o <<".jpg">>

\* Line 268: f"{safe_query}_{index}.jpg"
Filename(safe_query, index) == safe_query \o <<"_">> \o Str(index) \o <<".jpg">>

\* Line 269: os.path.join(SAVE_DIRECTORY, filename)
SavePath(filename) == <<"static", "/", "images", "/">> \o filename

\* Line 278: f"images/{filename}"
StaticPath(filename) == <<"images", "/">> \o filename

\* ---------------------------------------------------------------- download

\* Declared content types: image/jpeg, application/octet-stream, text/html
\* and a missing header (headers.get("Content-Type", "") gives "").
ContentTypes ==
  { <<"image", "/", "jpeg">>,
    <<"application", "/", "octet-stream">>,
    <<"text", "/", "html">>,
    << >> }

\* What the remote host answers to one image GET: a transport error before
\* any response, or a status with a content type, whose body may break off
\* while it is streamed.
ImageResponses ==
  {[kind |-> "transport", status |-> 0, ctype |-> << >>, streamErr |-> FALSE]}
    \cup [kind : {"http"}, status : {404}, ctype : {<<"text", "/", "html">>, <<"image", "/", "jpeg">>},
          streamErr : {FALSE}]
    \cup [kind : {"http"}, status : {200}, ctype : ContentTypes, streamErr : {FALSE}]
    \cup [kind : {"http"}, status : {200}, ctype : {<<"image", "/", "jpeg">>}, streamErr : {TRUE}]

\* The test with a missing header read as an image type
\* (headers.get("Content-Type", "image")).
BadContentTypeUnlessMissing(content_type) ==
  /\ content_type # << >>
  /\ ~ Contains(content_type, "image")
  /\ ~ Contains(content_type, "octet-stream")

\* Line 227: neither "image" nor "octet-stream" in content_type.
BadContentType(content_type) ==
  ~ Contains(content_type, "image") /\ ~ Contains(content_type, "octet-stream")

\* download_image without its try/except: a transport error or a bad status
\* leaves the function as an exception.
download_image_unguarded(resp) ==
  IF resp.kind = "transport" THEN [ok |-> FALSE, opened |-> FALSE, raised |-> TRUE]
  ELSE IF resp.status >= 400 THEN [ok |-> FALSE, opened |-> FALSE, raised |-> TRUE]
  ELSE IF ~ Contains(resp.ctype, "image") /\ ~ Contains(resp.ctype, "octet-stream")
       THEN [ok |-> FALSE, opened |-> FALSE, raised |-> FALSE]
  ELSE IF resp.streamErr THEN [ok |-> FALSE, opened |-> TRUE, raised |-> TRUE]
  ELSE [ok |-> TRUE, opened |-> TRUE, raised |-> FALSE]

\* download_image: the value returned (ok), whether the destination file was
\* opened for writing (opened) and whether an exception left the function
\* (raised; lines 240-242 catch every Exception).
download_image(resp) ==
  IF resp.kind = "transport" THEN [ok |-> FALSE, opened |-> FALSE, raised |-> FALSE]
  ELSE IF resp.status >= 400 THEN [ok |-> FALSE, opened |-> FALSE, raised |-> FALSE]
  ELSE IF BadContentType(resp.ctype) THEN [ok |-> FALSE, opened |-> FALSE, raised |-> FALSE]
  ELSE IF resp.streamErr THEN [ok |-> FALSE, opened |-> TRUE, raised |-> FALSE]
  ELSE [ok |-> TRUE, opened |-> TRUE, raised |-> FALSE]

\* The record with a one-based index (enumerate(image_urls, 1)).
MakeRecordOneBased(query, index, url, filename, backend_used) ==
  [query       |-> query,
   index       |-> index + 1,
   url         |-> url,
   filename    |-> filename,
   static_path |-> <<"images", "/">> \o filename,
   backend     |-> backend_used]

\* Lines 273-280: the record appended for a saved image.
MakeRecord(query, index, url, filename, backend_used) ==
  [query       |-> query,
   index       |-> index,
   url         |-> url,
   filename    |-> filename,
   static_path |-> StaticPath(filename),
   backend     |-> backend_used]

\* Line 260: backend_used
BackendUsed(scrape_backend) == Lower(scrape_backend)


\* ------------------------------------------------------- lightweight strategy

\* What the search endpoint answers to the GET of line 104: a transport
\* error, a non-success status, or a page.
SearchResponses ==
  [kind : {"transport"}, err : {"ConnectionError", "Timeout"}, status : {0}, text : {<< >>}]
    \cup [kind : {"http"}, err : {"none"}, status : {429}, text : {<< >>}]
    \cup [kind : {"http"}, err : {"none"}, status : {200}, text : Markups]

\* _fetch_urls_requests with a failed request read as an empty page.
_fetch_urls_requests_swallowing(resp, max_images) ==
  IF resp.kind = "transport" \/ resp.status >= 400
  THEN [raised |-> "none", value |-> << >>]
  ELSE [raised |-> "none", value |-> _extract_urls(resp.text, max_images)]

\* _fetch_urls_requests: the exception that leaves it (raised) or the list
\* it returns (value).
_fetch_urls_requests(resp, max_images) ==
  IF resp.kind = "transport" THEN [raised |-> resp.err, value |-> << >>]
  ELSE IF resp.status >= 400 THEN [raised |-> "HTTPError", value |-> << >>]
  ELSE [raised |-> "none", value |-> _extract_urls(resp.text, max_images)]

\* ------------------------------------------------------- strategy selector

\* The exception classes of the model that derive from Exception.
ExceptionClasses ==
  {"ImportError", "WebDriverException", "TimeoutException", "JavascriptException",
   "ConnectionError", "Timeout", "HTTPError", "ValueError"}

\* The handlers with `except Exception` left out.
CatchesImportErrorOnly(exc) == exc = "ImportError"

\* Lines 194-203: the handlers of fetch_image_urls (except ImportError,
\* except Exception).
Catches(exc) == exc = "ImportError" \/ exc \in ExceptionClasses

\* Line 191: the selenium branch is taken.
UseSelenium(scrape_backend) == Lower(scrape_backend) = "selenium"

\* The empty-candidates test left out.
NoResultsNever(urls) == FALSE

\* Line 263: not image_urls
NoResults(urls) == urls = << >>

\* ------------------------------------------------------------------- state

VARIABLES
  SCRAPE_BACKEND,  \* config.SCRAPE_BACKEND
  query,           \* argument of scrape_and_save
  max_images,      \* argument of scrape_and_save
  pc,              \* position of the run
  safe_query,      \* local of scrape_and_save
  backend_used,    \* local of scrape_and_save
  calls,           \* the strategies fetch_image_urls has started, in order
  driver,          \* the browser session: "none", "open", "closed"
  quits,           \* number of driver.quit() calls
  scroll,          \* loop variable i of the scroll sequence
  pending,         \* exception in flight inside the try block ("none" if none)
  selFailure,      \* where and how the selenium strategy failed
  reqResponse,     \* status of the response _fetch_urls_requests got
  html,            \* markup handed to _extract_urls (dropped with the frame)
  image_urls,      \* local of scrape_and_save
  effective,       \* the strategy that produced image_urls
  index,           \* loop variable of scrape_and_save
  results,         \* local of scrape_and_save
  attempts,        \* the download_image calls made, in order
  files,           \* destination paths opened for writing
  exception        \* exception that left scrape_and_save ("none" if none)

vars ==
  <<SCRAPE_BACKEND, query, max_images, pc, safe_query, backend_used, calls, driver,
    quits, scroll, pending, selFailure, reqResponse, html, image_urls, effective,
    index, results, attempts, files, exception>>

config   == <<SCRAPE_BACKEND, query, max_images>>
session  == <<driver, quits, scroll, pending>>
loopVars == <<index, results, attempts, files>>

NoFailure == [step |-> "none", exc |-> "none"]
NoResponse == [kind |-> "none", err |-> "none", status |-> 0]

Init ==
  /\ SCRAPE_BACKEND \in BackendValues
  /\ query \in Queries
  /\ max_images \in 0..MaxLimit
  /\ pc = "enter"
  /\ safe_query = << >>
  /\ backend_used = "none"
  /\ calls = << >>
  /\ driver = "none"
  /\ quits = 0
  /\ scroll = 0
  /\ pending = "none"
  /\ selFailure = NoFailure
  /\ reqResponse = NoResponse
  /\ html = << >>
  /\ image_urls = << >>
  /\ effective = "none"
  /\ index = 0
  /\ results = << >>
  /\ attempts = << >>
  /\ files = {}
  /\ exception = "none"

\* scrape_and_save, lines 258-262, and fetch_image_urls, lines 189-193/208:
\* the locals are set and the configured strategy is started.
Enter ==
  /\ pc = "enter"
  /\ safe_query' = SafeQuery(query)
  /\ backend_used' = BackendUsed(SCRAPE_BACKEND)
  /\ IF UseSelenium(SCRAPE_BACKEND)
     THEN pc' = "sel_import" /\ calls' = Append(calls, "selenium")
     ELSE pc' = "req" /\ calls' = Append(calls, "requests")
  /\ UNCHANGED <<config, session, selFailure, reqResponse, html, image_urls, effective,
                 loopVars, exception>>

\* An exception exc leaves _fetch_urls_selenium at `step` and reaches the
\* handlers of fetch_image_urls.
SeleniumRaises(step, exc) ==
  /\ selFailure' = [step |-> step, exc |-> exc]
  /\ IF Catches(exc)
     THEN pc' = "fallback" /\ exception' = exception
     ELSE pc' = "raised" /\ exception' = exc

\* Lines 129-135: the imports.
SelImport ==
  /\ pc = "sel_import"
  /\ \/ pc' = "sel_launch" /\ UNCHANGED <<selFailure, exception>>
     \/ SeleniumRaises("import", "ImportError")
  /\ UNCHANGED <<config, safe_query, backend_used, calls, session, reqResponse, html,
                 image_urls, effective, loopVars>>

\* Lines 151-152: the driver is installed and Chrome launched.
SelLaunch ==
  /\ pc = "sel_launch"
  /\ \/ pc' = "sel_get" /\ driver' = "open" /\ UNCHANGED <<selFailure, exception>>
     \/ SeleniumRaises("launch", "WebDriverException") /\ driver' = driver
  /\ UNCHANGED <<config, safe_query, backend_used, calls, quits, scroll, pending,
                 reqResponse, html, image_urls, effective, loopVars>>

\* A statement of the try block raises: control goes to the finally clause.
TryRaises(step, exc) ==
  /\ pending' = exc
  /\ selFailure' = [step |-> step, exc |-> exc]
  /\ pc' = "sel_finally"

\* Line 155: driver.get
SelGet ==
  /\ pc = "sel_get"
  /\ \/ pc' = "sel_wait" /\ UNCHANGED <<pending, selFailure>>
     \/ TryRaises("get", "WebDriverException")
  /\ UNCHANGED <<config, safe_query, backend_used, calls, driver, quits, scroll,
                 reqResponse, html, image_urls, effective, loopVars, exception>>

\* Lines 158-160: the wait for a thumbnail.
SelWait ==
  /\ pc = "sel_wait"
  /\ \/ pc' = "sel_scroll" /\ UNCHANGED <<pending, selFailure>>
     \/ TryRaises("wait", "TimeoutException")
  /\ scroll' = 0
  /\ UNCHANGED <<config, safe_query, backend_used, calls, driver, quits,
                 reqResponse, html, image_urls, effective, loopVars, exception>>

\* Lines 164-167: one scroll of the sequence.
SelScroll ==
  /\ pc = "sel_scroll"
  /\ scroll < SELENIUM_SCROLLS
  /\ \/ scroll' = scroll + 1 /\ UNCHANGED <<pc, pending, selFailure>>
     \/ TryRaises("scroll", "JavascriptException") /\ scroll' = scroll
  /\ UNCHANGED <<config, safe_query, backend_used, calls, driver, quits,
                 reqResponse, html, image_urls, effective, loopVars, exception>>

\* Line 169: the page source is captured.
SelPageSource ==
  /\ pc = "sel_scroll"
  /\ scroll = SELENIUM_SCROLLS
  /\ \/ \E h \in Markups :
          html' = h /\ pc' = "sel_finally" /\ UNCHANGED <<pending, selFailure>>
     \/ TryRaises("page_source", "WebDriverException") /\ html' = html
  /\ UNCHANGED <<config, safe_query, backend_used, calls, driver, quits, scroll,
                 reqResponse, image_urls, effective, loopVars, exception>>

\* The quit written after the capture instead of in a finally clause: it is
\* skipped when a statement of the try block raised.
SelQuitOnSuccessOnly ==
  /\ pc = "sel_finally"
  /\ IF pending = "none"
     THEN driver' = "closed" /\ quits' = quits + 1
     ELSE driver' = driver /\ quits' = quits
  /\ pending' = "none"
  /\ IF pending = "none"
     THEN pc' = "sel_extract" /\ exception' = exception
     ELSE IF Catches(pending)
          THEN pc' = "fallback" /\ exception' = exception
          ELSE pc' = "raised" /\ exception' = pending
  /\ UNCHANGED <<config, safe_query, backend_used, calls, scroll, selFailure,
                 reqResponse, html, image_urls, effective, loopVars>>

\* Lines 172-174: the finally clause; then the pending exception, if any,
\* reaches the handlers of fetch_image_urls.
SelFinally ==
  /\ pc = "sel_finally"
  /\ driver' = "closed"
  /\ quits' = quits + 1
  /\ pending' = "none"
  /\ IF pending = "none"
     THEN pc' = "sel_extract" /\ exception' = exception
     ELSE IF Catches(pending)
          THEN pc' = "fallback" /\ exception' = exception
          ELSE pc' = "raised" /\ exception' = pending
  /\ UNCHANGED <<config, safe_query, backend_used, calls, scroll, selFailure,
                 reqResponse, html, image_urls, effective, loopVars>>

\* Line 176 and the return of line 193.
SelExtract ==
  /\ pc = "sel_extract"
  /\ image_urls' = _extract_urls(html, max_images)
  /\ effective' = "selenium"
  /\ pc' = "fetched"
  /\ UNCHANGED <<config, safe_query, backend_used, calls, session, selFailure,
                 reqResponse, html, loopVars, exception>>

\* Line 205: after a caught failure the requests strategy is started.
Fallback ==
  /\ pc = "fallback"
  /\ calls' = Append(calls, "requests")
  /\ pc' = "req"
  /\ UNCHANGED <<config, safe_query, backend_used, session, selFailure,
                 reqResponse, html, image_urls, effective, loopVars, exception>>

\* _fetch_urls_requests (lines 101-107) and the return of line 205 or 208; an
\* exception propagates through fetch_image_urls and scrape_and_save.
FetchRequests ==
  /\ pc = "req"
  /\ \E resp \in SearchResponses :
       LET r == _fetch_urls_requests(resp, max_images)
       IN  /\ reqResponse' = [kind |-> resp.kind, err |-> resp.err, status |-> resp.status]
           /\ IF r.raised # "none"
              THEN /\ pc' = "raised"
                   /\ exception' = r.raised
                   /\ UNCHANGED <<html, image_urls, effective>>
              ELSE /\ pc' = "fetched"
                   /\ html' = resp.text
                   /\ image_urls' = r.value
                   /\ effective' = "requests"
                   /\ exception' = exception
  /\ UNCHANGED <<config, safe_query, backend_used, calls, session, selFailure, loopVars>>

\* Lines 263-266: the empty-candidates test.
CheckEmpty ==
  /\ pc = "fetched"
  /\ html' = << >>
  /\ IF NoResults(image_urls)
     THEN pc' = "raised" /\ exception' = "ValueError"
     ELSE pc' = "loop" /\ exception' = exception
  /\ UNCHANGED <<config, safe_query, backend_used, calls, session, selFailure,
                 reqResponse, image_urls, effective, loopVars>>

\* Lines 267-281: one iteration of the download loop.
Download ==
  /\ pc = "loop"
  /\ index < Len(image_urls)
  /\ \E resp \in ImageResponses :
       LET url       == image_urls[index + 1]
           filename  == Filename(safe_query, index)
           save_path == SavePath(filename)
           d         == download_image(resp)
       IN  /\ attempts' = Append(attempts,
                 [url |-> url, save_path |-> save_path, resp |-> resp, ok |-> d.ok])
           /\ files' = IF d.opened THEN files \cup {save_path} ELSE files
           /\ IF d.raised
              THEN pc' = "raised" /\ exception' = "RequestException"
                   /\ UNCHANGED <<results, index>>
              ELSE /\ results' = IF d.ok
                                 THEN Append(results,
                                        MakeRecord(query, index, url, filename, backend_used))
                                 ELSE results
                   /\ index' = index + 1
                   /\ UNCHANGED <<pc, exception>>
  /\ UNCHANGED <<config, safe_query, backend_used, calls, session, selFailure,
                 reqResponse, html, image_urls, effective>>

\* Lines 283-287: the loop is over and the list is returned.
Return ==
  /\ pc = "loop"
  /\ index = Len(image_urls)
  /\ pc' = "returned"
  /\ UNCHANGED <<config, safe_query, backend_used, calls, session, selFailure,
                 reqResponse, html, image_urls, effective, loopVars, exception>>

Next ==
  \/ Enter
  \/ SelImport
  \/ SelLaunch
  \/ SelGet
  \/ SelWait
  \/ SelScroll
  \/ SelPageSource
  \/ SelFinally
  \/ SelExtract
  \/ Fallback
  \/ FetchRequests
  \/ CheckEmpty
  \/ Download
  \/ Return

Spec == Init /\ [][Next]_vars


\* ------------------------------------------------------------------ claims

\* The run has left fetch_image_urls with a candidate list.
Discovered == effective # "none" /\ pc \in {"fetched", "loop", "returned", "raised"}

\* The selenium strategy failed somewhere.
SeleniumFailed == selFailure.step # "none"

\* The response the requests strategy got is a failure.
RequestsFailed ==
  reqResponse.kind = "transport" \/ (reqResponse.kind = "http" /\ reqResponse.status >= 400)

\* C1: when selenium is configured and the candidates came from the requests
\* strategy after a selenium failure, every returned record's backend field
\* is the backend actually used, "requests".
C1_BackendFieldIsEffective ==
  (pc = "returned" /\ UseSelenium(SCRAPE_BACKEND) /\ SeleniumFailed /\ effective = "requests")
    => \A k \in 1..Len(results) : results[k].backend = "requests"

C3_SeleniumFailureDegrades ==
  (UseSelenium(SCRAPE_BACKEND) /\ SeleniumFailed) =>
    /\ pc \in {"sel_finally", "fallback", "req", "fetched", "loop", "returned", "raised"}
    /\ pc \in {"req", "fetched", "loop", "returned", "raised"} => calls = <<"selenium", "requests">>
    /\ pc = "raised" => (exception = "ValueError" \/ RequestsFailed)
    /\ pc \in {"fetched", "loop", "returned"} =>
         /\ effective = "requests"
         /\ reqResponse.kind = "http" /\ reqResponse.status = 200
         /\ exception = "none"
    /\ pc = "fetched" =>
         image_urls =
           _fetch_urls_requests(
             [kind |-> "http", err |-> "none", status |-> 200, text |-> html], max_images).value

\* A run whose scroll script failed and that still returned records.
C3_Witness ==
  /\ pc = "returned"
  /\ selFailure = [step |-> "scroll", exc |-> "JavascriptException"]
  /\ Len(results) >= 1
  /\ driver = "closed"

\* C4: an empty candidate list, from either strategy, ends the run with
\* ValueError: nothing is returned and download_image is never called.
C4_EmptyCandidatesRaise ==
  (Discovered /\ image_urls = << >> /\ pc # "fetched") =>
    /\ pc = "raised"
    /\ exception = "ValueError"
    /\ attempts = << >>
    /\ results = << >>
    /\ files = {}

\* An empty list obtained by the requests strategy after a selenium failure.
C4_Witness ==
  /\ pc = "raised"
  /\ exception = "ValueError"
  /\ calls = <<"selenium", "requests">>
  /\ effective = "requests"
  /\ image_urls = << >>

\* The URLs of the download_image calls that returned True.
RECURSIVE SavedUrls(_)
SavedUrls(as) ==
  IF as = << >> THEN << >>
  ELSE IF Head(as).ok THEN <<Head(as).url>> \o SavedUrls(Tail(as))
  ELSE SavedUrls(Tail(as))

\* C5: with a non-empty candidate list, download_image is called once per
\* candidate in candidate order, no download outcome makes the run raise,
\* and the returned list holds one record per successful download, in
\* candidate order.
C5_DownloadFailuresAbsorbed ==
  /\ pc \in {"loop", "returned"} =>
       /\ Len(attempts) = index
       /\ \A i \in 1..Len(attempts) : attempts[i].url = image_urls[i]
       /\ exception = "none"
  /\ pc = "returned" => Len(attempts) = Len(image_urls)
  /\ Len(results) = Len(SavedUrls(attempts))
  /\ \A k \in 1..Len(results) : results[k].url = SavedUrls(attempts)[k]
  /\ attempts # << >> => pc \in {"loop", "returned"}

\* Two candidates: the first download fails on a 404, the second is saved.
C5_Witness ==
  /\ pc = "returned"
  /\ Len(image_urls) = 2
  /\ attempts[1].resp.status = 404
  /\ attempts[2].ok
  /\ Len(results) = 1
  /\ results[1].url = image_urls[2]


\* The positions of a match sequence that survive: the URL holds no
\* denylisted token and does not occur at an earlier position.
KeptPositions(urls) ==
  { i \in 1..Len(urls) :
      /\ \A j \in 1..Len(urls[i]) : urls[i][j] \notin _SKIP_DOMAINS
      /\ \A j \in 1..(i - 1) : urls[j] # urls[i] }

\* The k-th smallest element of a set of numbers.
KthSmallest(S, k) == CHOOSE x \in S : Cardinality({y \in S : y < x}) = k - 1

Min(a, b) == IF a < b THEN a ELSE b

\* out is the first min(limit, n) URLs of urls taken at its kept positions.
IsFirstKept(out, urls, limit) ==
  /\ Len(out) = Min(limit, Cardinality(KeptPositions(urls)))
  /\ \A k \in 1..Len(out) : out[k] = urls[KthSmallest(KeptPositions(urls), k)]

\* C6: for the matches of the markup and the limit of the run, _extract_urls
\* returns the first min(limit, n) of the match sequence with denylisted URLs
\* dropped and only first occurrences kept: no URL twice, no denylisted URL,
\* first-occurrence order.
C6_ExtractFiltersDedupsTruncates ==
  pc = "fetched" =>
    /\ IsFirstKept(image_urls, Matches(html), max_images)
    /\ Len(image_urls) <= max_images
    /\ \A k \in 1..Len(image_urls), m \in 1..Len(image_urls) :
         k # m => image_urls[k] # image_urls[m]
    /\ \A k \in 1..Len(image_urls) :
         \A j \in 1..Len(image_urls[k]) : image_urls[k][j] \notin _SKIP_DOMAINS

\* Three matches, the second a repeat of the first, and a limit of one: the
\* repeat is dropped and the two URLs left are cut to one.
C6_Witness ==
  /\ pc = "fetched"
  /\ Len(Matches(html)) = 3
  /\ Matches(html)[1] = Matches(html)[2]
  /\ Cardinality(KeptPositions(Matches(html))) = 2
  /\ max_images = 1
  /\ Len(image_urls) = 1

\* C7: the pattern is chosen by the raw primary match count alone: with at
\* least one primary match only primary matches are used, even when the
\* filter leaves none of them; with none, the fallback matches are used, and
\* with no match of either pattern the result is the empty list, with no
\* error raised by the extraction.
C7_PatternChosenByPrimaryCount ==
  pc = "fetched" =>
    /\ OuFindall(html) # << >> => IsFirstKept(image_urls, OuFindall(html), max_images)
    /\ OuFindall(html) = << >> => IsFirstKept(image_urls, FallbackFindall(html), max_images)
    /\ (OuFindall(html) = << >> /\ FallbackFindall(html) = << >>) => image_urls = << >>
    /\ exception = "none"

\* The only primary match is denylisted while the fallback pattern would
\* have matched an external URL: the result is empty.
C7_Witness ==
  /\ pc = "fetched"
  /\ max_images >= 1
  /\ Len(OuFindall(html)) = 1
  /\ KeptPositions(OuFindall(html)) = {}
  /\ KeptPositions(FallbackFindall(html)) # {}
  /\ image_urls = << >>

\* The content types that name neither an image nor a binary stream:
\* text/html and a missing header.
NonImageTypes == { <<"text", "/", "html">>, << >> }

\* C8: a download answered with a success status and a non-image content
\* type returns False, never opens its destination file, and no record is
\* emitted for its URL.
C8_NonImageNeverSaved ==
  \A i \in 1..Len(attempts) :
    (attempts[i].resp.kind = "http" /\ attempts[i].resp.status = 200
       /\ attempts[i].resp.ctype \in NonImageTypes) =>
      /\ attempts[i].ok = FALSE
      /\ attempts[i].save_path \notin files
      /\ \A k \in 1..Len(results) : results[k].url # attempts[i].url

\* A text/html answer to the first candidate, a missing header on the
\* second, in a run that returned.
C8_Witness ==
  /\ pc = "returned"
  /\ Len(attempts) = 2
  /\ attempts[1].resp.status = 200 /\ attempts[1].resp.ctype = <<"text", "/", "html">>
  /\ attempts[2].resp.status = 200 /\ attempts[2].resp.ctype = << >>
  /\ results = << >>

\* The slug of each query of the model, written out.
ExpectedSlug(q) ==
  IF q = <<"c", "a", "t">> THEN <<"c", "a", "t">> ELSE <<"r", "_", "p">>

\* C9: the candidate at 0-based position i is written to {slug}_{i}.jpg
\* under the save directory, whatever the other downloads did; no two
\* candidates of a run share a destination path, and each record's filename
\* is the one of its own URL's candidate position.
C9_FilenameByCandidatePosition ==
  /\ \A i \in 1..Len(attempts) :
       attempts[i].save_path =
         <<"static", "/", "images", "/">> \o ExpectedSlug(query) \o <<"_">> \o Str(i - 1) \o <<".jpg">>
  /\ \A i \in 1..Len(attempts), j \in 1..Len(attempts) :
       i # j => attempts[i].save_path # attempts[j].save_path
  /\ \A k \in 1..Len(results) :
       \E i \in 1..Len(attempts) :
         /\ attempts[i].url = results[k].url
         /\ image_urls[i] = results[k].url
         /\ attempts[i].save_path = <<"static", "/", "images", "/">> \o results[k].filename
         /\ results[k].static_path = <<"images", "/">> \o results[k].filename

\* The first download failed, and the second candidate was still written to
\* {slug}_1.jpg.
C9_Witness ==
  /\ pc = "returned"
  /\ query = <<"_", "r", " ", "!", "p", "?">>
  /\ Len(attempts) = 2
  /\ attempts[1].ok = FALSE
  /\ results = <<[query |-> query, index |-> 1, url |-> image_urls[2],
                  filename |-> <<"r", "_", "p", "_", "1", ".jpg">>,
                  static_path |-> <<"images", "/", "r", "_", "p", "_", "1", ".jpg">>,
                  backend |-> backend_used]>>

\* C10: in one invocation each strategy is started at most once, selenium
\* never after requests and never when requests is configured, and a failure
\* of the requests strategy, configured or fallback, leaves the run as that
\* exception with nothing started after it.
C10_OneWayDegradation ==
  /\ calls \in { << >>, <<"requests">>, <<"selenium">>, <<"selenium", "requests">> }
  /\ ~ UseSelenium(SCRAPE_BACKEND) => \A i \in 1..Len(calls) : calls[i] = "requests"
  /\ RequestsFailed =>
       /\ pc = "raised"
       /\ exception = (IF reqResponse.kind = "transport" THEN reqResponse.err ELSE "HTTPError")
       /\ calls[Len(calls)] = "requests"
       /\ effective = "none"
       /\ attempts = << >>

\* The fallback request made after a selenium failure is answered 429.
C10_Witness ==
  /\ pc = "raised"
  /\ calls = <<"selenium", "requests">>
  /\ reqResponse.status = 429
  /\ exception = "HTTPError"


\* The positions of the run inside the try block of _fetch_urls_selenium,
\* the finally clause included.
InTryBlock == pc \in {"sel_get", "sel_wait", "sel_scroll", "sel_finally"}

\* C11: once _fetch_urls_selenium holds a browser session, every way out of
\* its try block (completion, or a failure of the navigation, the wait, a
\* scroll or the capture) quits the session exactly once, so no session is
\* open when the URLs are extracted, when the requests fallback starts or
\* when the run ends.
C11_SessionReleasedOnce ==
  /\ quits <= 1
  /\ driver = "open" => (InTryBlock /\ quits = 0)
  /\ driver = "closed" <=> quits = 1
  /\ InTryBlock => (driver = "open" /\ quits = 0)
  /\ (driver # "none" /\ ~ InTryBlock) => (driver = "closed" /\ quits = 1)
  /\ pc \in {"sel_extract", "fallback", "req", "fetched", "loop", "returned", "raised"} =>
       driver # "open"
  /\ (selFailure.step \in {"get", "wait", "scroll", "page_source"} /\ ~ InTryBlock) =>
       (driver = "closed" /\ quits = 1)

\* The capture of the page source failed, the session was quit, and the run
\* ended on the fallback's result.
C11_Witness ==
  /\ pc = "returned"
  /\ selFailure = [step |-> "page_source", exc |-> "WebDriverException"]
  /\ scroll = SELENIUM_SCROLLS
  /\ calls = <<"selenium", "requests">>
  /\ driver = "closed"
  /\ quits = 1


====
